---- MODULE Spec2Model ----
(***************************************************************************)
(* Model of the agent orchestration of server/index.js: the request       *)
(* records under tmp/requests (one Job), the SSE hub (streams), and the    *)
(* handlers POST /api/agent/start, GET /api/agent/stream/:jobId,           *)
(* POST /api/agent/message, POST /api/agent/complete and                   *)
(* POST /api/agent/form/submit.  A handler runs without interruption up    *)
(* to its next await on an external call (OpenAI, Google Calendar); each   *)
(* such stretch is one action.                                             *)
(***************************************************************************)
EXTENDS Integers, Sequences, FiniteSets, TLC

\* ------------------------------------------------------------------ bounds
MaxReqs == 2
MaxSubs == 2
MaxInFlight == 2
\* message requests of the message-only specification
MaxOnlyMsgs == 3
\* entries of a submitted form field, and characters of one entry
MaxEntries == 2
MaxEntryLen == 2

\* the length of a day in time units, and how far before the first day the slot
\* loop is followed when it runs backwards
DayLen == 12

MaxBack == 3

\* ------------------------------------------------------------- value sets
\* body.content of the request taken as number id, as a sequence of characters:
\* the requests carry pairwise different contents
Content(id) == <<"m", ToString(id)>>

\* the jobId POST /api/agent/start answers with, and one no record file exists for
JobId == "job"

UnknownJobId == "nojob"

\* req.body of POST /api/agent/message for the request taken as number id: jobId
\* and content given, content missing, jobId missing, jobId unknown
MessageBodies(id) ==
  { [jobId |-> JobId, content |-> Content(id)],
    [jobId |-> JobId, content |-> << >>],
    [jobId |-> "", content |-> Content(id)],
    [jobId |-> UnknownJobId, content |-> Content(id)] }

\* body.initialMessage of POST /api/agent/start, when given
SeedContents == { <<"s">> }

\* fields of a request record before the handler has set them
NoMsgs == << >>

\* lastDecision: null
NoDecision == [decision |-> "null", rationale |-> "", hasMissing |-> FALSE, missing |-> << >>]

\* the form of a record that has none
NoForm == [has |-> FALSE, topic |-> "", attendees |-> << >>]

\* a request file that does not exist
NoRec == [exists |-> FALSE, messages |-> NoMsgs, state |-> "", evaluated |-> FALSE,
          lastDecision |-> NoDecision, form |-> NoForm]

\* body.slot absent
NoSlot == [has |-> FALSE, start |-> "", end |-> ""]

Slots == { NoSlot, [has |-> TRUE, start |-> "s1", end |-> "e1"] }

\* body.form / body.values of the two submission endpoints
Forms == { [has |-> TRUE, topic |-> "t", attendees |-> <<"x">>] }

\* what calendar.events.insert resolves to: data.id
EventIds == { "ev1", "ev2" }

\* loadConfig().requiredFieldsOnApprove: the default list, or an empty one
\* (REQUIRED_FIELDS_ON_APPROVE="," or a config file with an empty list)
DefaultRequiredFields == <<"topic", "attendees", "urgency", "desiredTimeframe">>

RequiredFieldsChoices == { DefaultRequiredFields, << >> }

\* the ask list of the handler when the decision is not APPROVE and lists nothing
DeclineAsk == <<"topic", "desiredTimeframe", "agenda">>

\* objects JSON.parse can give for the model's answer, and the parse-error default
ParseErrorDecision == [decision |-> "DECLINE", rationale |-> "Parsing error", hasMissing |-> FALSE, missing |-> << >>]

DisabledDecision == [decision |-> "DECLINE", rationale |-> "LLM disabled", hasMissing |-> FALSE, missing |-> << >>]

ParsedDecisions ==
  { [decision |-> "APPROVE", rationale |-> "r", hasMissing |-> TRUE,  missing |-> <<"attendees">>],
    [decision |-> "APPROVE", rationale |-> "r", hasMissing |-> TRUE,  missing |-> << >>],
    [decision |-> "APPROVE", rationale |-> "r", hasMissing |-> FALSE, missing |-> << >>],
    [decision |-> "DECLINE", rationale |-> "r", hasMissing |-> FALSE, missing |-> << >>] }

\* outcomes of the awaited openai.chat.completions.create of agentDecideAndGather
OracleOutcomes == { [ok |-> FALSE, parses |-> FALSE, parsed |-> NoDecision],
                    [ok |-> TRUE,  parses |-> FALSE, parsed |-> NoDecision] }
                  \cup { [ok |-> TRUE, parses |-> TRUE, parsed |-> d] : d \in ParsedDecisions }

\* no computation is being followed
NoCalc == [op |-> "none"]

VARIABLES
  cfg,      \* environment: OPENAI_API_KEY set, loadConfig().requiredFieldsOnApprove
  rec,      \* tmp/requests/<jobId>.json
  hist,     \* the changes of rec.state written so far, as pairs <<from, to>>
  streams,  \* streams.get(jobId): the attached subscriber, 0 when none
  out,      \* per subscriber, the events written to its response
  ended,    \* per subscriber, res.end() was called
  nsubs,    \* subscribers created so far
  reqs,     \* per request taken, the handler's locals and its position
  accepted, \* the contents of the user messages taken so far, the seeded one included
  evals,    \* invocations of agentDecideAndGather: the request, its input, and the
            \* user messages taken up to then
  suggests, \* invocations of calendar.events.list by suggestSlotsCore
  books,    \* invocations of calendar.events.insert, with the event id each resolved to
  calc      \* the argument and the result of a computation followed on its own
            \* (the normalisation of a submitted form field, the slot loop, the
            \* form schema); idle in the server runs

vars == <<cfg, rec, hist, streams, out, ended, nsubs, reqs, accepted, evals, suggests, books, calc>>

Subs == 1..MaxSubs
\* the requests taken so far
ReqIds == DOMAIN reqs

\* ---------------------------------------------------------------- helpers
\* Array.prototype.join('\n') over the contents
RECURSIVE Join(_)
Join(ss) ==
  IF Len(ss) = 0 THEN << >>
  ELSE IF Len(ss) = 1 THEN ss[1]
  ELSE ss[1] \o <<"\n">> \o Join(Tail(ss))

\* (messages).filter(m => m.role === 'user').map(m => m.content)
RECURSIVE UserContents(_)
UserContents(ms) ==
  IF Len(ms) = 0 THEN << >>
  ELSE IF ms[1].role = "user" THEN <<ms[1].content>> \o UserContents(Tail(ms))
  ELSE UserContents(Tail(ms))

Combined(ms) == Join(UserContents(ms))

Msg(role, agent, content) == [role |-> role, agent |-> agent, content |-> content]

Ev(type, data, by) == [type |-> type, data |-> data, by |-> by, late |-> FALSE]

\* the part of the state a handler reads and writes synchronously
World == [rec |-> rec, hist |-> hist, streams |-> streams, out |-> out, ended |-> ended]

sseSend(w, s, e) ==
  [w EXCEPT !.out[s] = Append(@, [e EXCEPT !.late = w.ended[s]])]

\* const emit = (event, data) => stream && sseSend(stream, event, data)
emit(w, s, e) == IF s # 0 THEN sseSend(w, s, e) ELSE w

RECURSIVE emitAll(_, _, _)
emitAll(w, s, es) ==
  IF Len(es) = 0 THEN w ELSE emitAll(emit(w, s, es[1]), s, Tail(es))

writeJSON(w, data) ==
  [w EXCEPT !.rec = data,
            !.hist = IF w.rec.state # data.state THEN @ \cup { <<w.rec.state, data.state>> } ELSE @]

\* an appendMessage that keeps only the new entry
appendMessage_KeepsOnlyNew(w, msg) ==
  writeJSON(w, [w.rec EXCEPT !.exists = TRUE, !.messages = << msg >>])

appendMessage(w, msg) ==
  writeJSON(w, [w.rec EXCEPT !.exists = TRUE, !.messages = Append(@, msg)])

\* an updateState that stores the state only when there is a subscriber to tell
updateState_OnlyWhenWatched(w, newState, by) ==
  IF w.streams # 0
  THEN sseSend(writeJSON(w, [w.rec EXCEPT !.exists = TRUE, !.state = newState]),
               w.streams, Ev("state", <<newState>>, by))
  ELSE w

updateState(w, newState, by) ==
  LET w1 == writeJSON(w, [w.rec EXCEPT !.exists = TRUE, !.state = newState])
  IN  IF w1.streams # 0 THEN sseSend(w1, w1.streams, Ev("state", <<newState>>, by)) ELSE w1

closeStream(w) ==
  IF w.streams # 0
  THEN [w EXCEPT !.ended[w.streams] = TRUE, !.streams = 0]
  ELSE w

\* buildFormSchema(ask): the keys of the fields marked required
SchemaKeys == <<"topic", "attendees", "urgency", "desiredTimeframe", "background", "links">>

InSeq(x, s) == \E i \in 1..Len(s) : s[i] = x

buildFormSchema(ask) == SelectSeq(SchemaKeys, LAMBDA k : InSeq(k, ask))

\* -------------------------------------------------------------- requests
\* the locals a handler reads again after an await, its position and its response
\* oracle: how agentDecideAndGather ended ("" while it has not); caught: the handler's
\* catch block ran
\* body: the jobId and the content of the request's body; during: the requests
\* that were awaiting when this one was taken
NoReq == [kind |-> "none", pc |-> "idle", next |-> NoRec, stream |-> 0,
          decision |-> NoDecision, ask |-> << >>, oracle |-> "", caught |-> FALSE, res |-> 0,
          body |-> [jobId |-> "", content |-> << >>], during |-> { }]

\* the rejection of an awaited call reaches the catch of POST /api/agent/message,
\* which answers { ok: true }
Caught(r) == [r EXCEPT !.pc = "done", !.res = 200, !.next = NoRec, !.caught = TRUE]

\* a handler that answered 200 whatever it had found
Done_AlwaysOk(r, status) == [r EXCEPT !.pc = "done", !.res = 200, !.next = NoRec]

\* the handler has returned with the given status (0: no response was sent)
Done(r, status) == [r EXCEPT !.pc = "done", !.res = status, !.next = NoRec]

\* the server after it has started: no job, no subscriber, no request
InitServer ==
  /\ cfg \in [openai : BOOLEAN, requiredFieldsOnApprove : RequiredFieldsChoices]
  /\ rec = NoRec
  /\ hist = { }
  /\ streams = 0
  /\ out = [s \in Subs |-> << >>]
  /\ ended = [s \in Subs |-> FALSE]
  /\ nsubs = 0
  /\ reqs = << >>
  /\ accepted = << >>
  /\ evals = << >>
  /\ suggests = << >>
  /\ books = << >>

Init == InitServer /\ calc = NoCalc

\* requests awaiting an external call
InFlight == { i \in ReqIds : reqs[i].pc \notin { "idle", "done" } }

\* a new request is taken while fewer than MaxInFlight are awaiting
CanAccept(max) == Len(reqs) < max /\ Cardinality(InFlight) < MaxInFlight

SetWorld(w) ==
  /\ rec' = w.rec
  /\ hist' = w.hist
  /\ streams' = w.streams
  /\ out' = w.out
  /\ ended' = w.ended

\* a start that evaluated the seeded message at once
Start_Evaluating ==
  /\ ~rec.exists
  /\ \E initialMessage \in SeedContents \cup { << >> } :
       /\ SetWorld(writeJSON(World,
         [exists |-> TRUE,
          messages |-> IF initialMessage # << >>
                       THEN << Msg("user", "user", initialMessage) >> ELSE << >>,
          state |-> IF initialMessage # << >> THEN "evaluating" ELSE "awaiting_input",
          evaluated |-> initialMessage # << >>,
          lastDecision |-> NoDecision, form |-> NoForm]))
       /\ accepted' = IF initialMessage # << >> THEN << initialMessage >> ELSE << >>
  /\ UNCHANGED <<calc, cfg, nsubs, reqs, evals, suggests, books>>

\* POST /api/agent/start
Start ==
  /\ ~rec.exists
  /\ \E initialMessage \in SeedContents \cup { << >> } :
       /\ SetWorld(writeJSON(World,
         [exists |-> TRUE,
          messages |-> IF initialMessage # << >>
                       THEN << Msg("user", "user", initialMessage) >> ELSE << >>,
          state |-> "awaiting_input", evaluated |-> FALSE,
          lastDecision |-> NoDecision, form |-> NoForm]))
       /\ accepted' = IF initialMessage # << >> THEN << initialMessage >> ELSE << >>
  /\ UNCHANGED <<calc, cfg, nsubs, reqs, evals, suggests, books>>

\* a subscribe that sent awaiting_input whatever the record holds
Subscribe_FixedSnapshot ==
  /\ nsubs < MaxSubs
  /\ nsubs' = nsubs + 1
  /\ LET s  == nsubs + 1
         w1 == [World EXCEPT !.streams = s]
         w2 == sseSend(w1, s, Ev("log", <<"Agent ready.">>, 0))
     IN  IF ~w2.rec.exists
         THEN SetWorld(closeStream(sseSend(w2, s, Ev("error", <<"Unknown jobId">>, 0))))
         ELSE SetWorld(sseSend(w2, s, Ev("state", <<"awaiting_input">>, 0)))
  /\ UNCHANGED <<calc, cfg, reqs, accepted, evals, suggests, books>>

\* GET /api/agent/stream/:jobId
Subscribe ==
  /\ nsubs < MaxSubs
  /\ nsubs' = nsubs + 1
  /\ LET s  == nsubs + 1
         w1 == [World EXCEPT !.streams = s]
         w2 == sseSend(w1, s, Ev("log", <<"Agent ready.">>, 0))
     IN  IF ~w2.rec.exists
         THEN SetWorld(closeStream(sseSend(w2, s, Ev("error", <<"Unknown jobId">>, 0))))
         ELSE SetWorld(sseSend(w2, s, Ev("state",
                <<IF w2.rec.state # "" THEN w2.rec.state ELSE "awaiting_input">>, 0)))
  /\ UNCHANGED <<calc, cfg, reqs, accepted, evals, suggests, books>>

\* ------------------------------------------------- POST /api/agent/message
\* const ask = (decision.missing && decision.missing.length > 0) ? decision.missing : ...
Ask(decision) ==
  IF decision.hasMissing /\ Len(decision.missing) > 0 THEN decision.missing
  ELSE IF decision.decision = "APPROVE" THEN cfg.requiredFieldsOnApprove
  ELSE DeclineAsk

\* the state the handler writes last
FinalState(decision, ask) ==
  IF decision.decision = "APPROVE" /\ Len(ask) = 0 THEN "ready_to_schedule"
  ELSE IF decision.decision = "APPROVE" THEN "approved_needs_details"
  ELSE "awaiting_input"

\* a handler that sent the inline form whenever it has something to ask for
ShowForm_AnyDecision(decision, ask) == Len(ask) > 0

\* whether the handler sends the inline form
ShowForm(decision, ask) == decision.decision = "APPROVE" /\ Len(ask) > 0

\* the events agentDecideAndGather emits once the model's answer is parsed
DecideEvents(parsed, by) ==
  << Ev("decision", <<parsed.decision>>, by) >> \o
  ( IF parsed.decision = "APPROVE"
    THEN LET missing == IF parsed.hasMissing THEN parsed.missing ELSE cfg.requiredFieldsOnApprove
         IN  IF Len(missing) > 0 THEN << Ev("gather", missing, by) >> ELSE << >>
    ELSE << >> )

\* a handler that wrote the agent event ahead of the tool result
afterDecide_AgentFirst(w, id, stream, decision) ==
  emitAll(w, stream,
    << Ev("agent", <<"decision", decision.decision>>, id),
       Ev("tool", <<"decision.evaluate", "result">>, id) >> \o
    ( IF decision.decision = "APPROVE"
      THEN << Ev("tool", <<"calendar.suggest", "call">>, id) >> ELSE << >> ))

\* after agentDecideAndGather has returned: the tool result and the agent event
afterDecide(w, id, stream, decision) ==
  emitAll(w, stream,
    << Ev("tool", <<"decision.evaluate", "result">>, id),
       Ev("agent", <<"decision", decision.decision>>, id) >> \o
    ( IF decision.decision = "APPROVE"
      THEN << Ev("tool", <<"calendar.suggest", "call">>, id) >> ELSE << >> ))

\* after suggestSlotsCore has returned
suggestEvents(id) ==
  << Ev("tool", <<"calendar.suggest", "result">>, id),
     Ev("agent", <<"calendar">>, id) >>

\* store decision agent message
storeDecision(w, decision) ==
  appendMessage(w, Msg("assistant", "decision", <<"json", decision.decision>>))

\* from emit('gather') to the final writeJSON, once chatAgentGenerate has returned
finish(w, id, next, stream, decision, ask, chatText) ==
  LET w1 == emit(w, stream, Ev("gather", ask, id))
      w2 == IF ShowForm(decision, ask) /\ w1.streams # 0
            THEN sseSend(w1, w1.streams, Ev("form", buildFormSchema(ask), id))
            ELSE w1
      w3 == appendMessage(w2, Msg("assistant", "chat", chatText))
      w4 == emit(w3, stream, Ev("chat", <<"assistant", "chat">>, id))
      w5 == updateState(w4, FinalState(decision, ask), id)
  IN  writeJSON(w5, [next EXCEPT !.evaluated = TRUE, !.lastDecision = decision])

\* the handler up to its first await (the whole handler when no LLM is configured),
\* run in world w for the request taken as number id: the world it leaves, the
\* request's locals and position, and the input it gives the oracle
messageTaken(w, id, body) ==
  LET jobId == body.jobId
      content == body.content
      r0 == [NoReq EXCEPT !.kind = "message", !.body = body]
  IN
  IF jobId = "" \/ content = << >> THEN
    [w |-> w, r |-> Done(r0, 400), combined |-> << >>]
  ELSE IF jobId # JobId \/ ~w.rec.exists THEN
    [w |-> w, r |-> Done(r0, 404), combined |-> << >>]
  ELSE
    LET w1 == appendMessage(w, Msg("user", "user", content))
        next == w1.rec
        w2 == updateState(w1, "evaluating", id)
        stream == w2.streams
        combined == Combined(next.messages)
        w3 == emitAll(w2, stream,
                << Ev("chat", <<"user", "user">>, id),
                   Ev("tool", <<"decision.evaluate", "call">>, id),
                   Ev("log", <<"Evaluating due diligence...">>, id) >>)
        r1 == [r0 EXCEPT !.next = next, !.stream = stream]
    IN
    IF ~cfg.openai THEN
      LET d  == DisabledDecision
          w4 == emit(w3, stream, Ev("log", <<"LLM disabled">>, id))
          w5 == storeDecision(afterDecide(w4, id, stream, d), d)
          ask == Ask(d)
      IN  [w |-> finish(w5, id, next, stream, d, ask, <<"fallback">>),
           r |-> Done([r1 EXCEPT !.decision = d, !.ask = ask, !.oracle = "disabled"], 200),
           combined |-> combined]
    ELSE
      [w |-> w3, r |-> [r1 EXCEPT !.pc = "m_oracle"], combined |-> combined]

\* the request was turned away with 400 or 404
Rejected(r) == r.pc = "done" /\ r.res \in { 400, 404 }

MessageAcceptN(max) ==
  /\ CanAccept(max)
  /\ \E body \in MessageBodies(Len(reqs) + 1) :
       LET id == Len(reqs) + 1
           o  == messageTaken(World, id, body)
       IN
       /\ SetWorld(o.w)
       /\ reqs' = Append(reqs, [o.r EXCEPT !.during = InFlight])
       /\ accepted' = IF Rejected(o.r) THEN accepted ELSE Append(accepted, body.content)
       /\ evals' = IF Rejected(o.r) THEN evals
                   ELSE Append(evals, [by |-> id, input |-> o.combined,
                                       sofar |-> Append(accepted, body.content)])
  /\ UNCHANGED <<calc, cfg, nsubs, suggests, books>>

MessageAccept == MessageAcceptN(MaxReqs)

\* what follows the await of agentDecideAndGather's openai.chat.completions.create,
\* up to the next await, for the request with locals r
oracleReturned(w, r, id, o, ownerGoogle) ==
  IF ~o.ok THEN
    \* the rejection reaches the handler's catch
    [w |-> w, r |-> Caught([r EXCEPT !.oracle = "failed"])]
  ELSE
    LET d  == IF o.parses THEN o.parsed ELSE ParseErrorDecision
        r1 == [r EXCEPT !.decision = d,
                        !.oracle = IF o.parses THEN "parsed" ELSE "unparsed"]
        w1 == emitAll(w, r.stream, DecideEvents(d, id))
        w2 == afterDecide(w1, id, r.stream, d)
    IN
    IF d.decision = "APPROVE" /\ ownerGoogle THEN
      [w |-> w2, r |-> [r1 EXCEPT !.pc = "m_suggest"]]
    ELSE
      LET w3 == IF d.decision = "APPROVE"
                THEN emitAll(w2, r.stream, suggestEvents(id)) ELSE w2
      IN  [w |-> storeDecision(w3, d), r |-> [r1 EXCEPT !.ask = Ask(d), !.pc = "m_chat"]]

\* openai.chat.completions.create of agentDecideAndGather settles
OracleReturn(id) ==
  /\ reqs[id].pc = "m_oracle"
  /\ \E o \in OracleOutcomes, ownerGoogle \in BOOLEAN :
       LET n == oracleReturned(World, reqs[id], id, o, ownerGoogle) IN
       /\ o.ok \/ ~ownerGoogle
       /\ SetWorld(n.w)
       /\ reqs' = [reqs EXCEPT ![id] = n.r]
       /\ suggests' = IF n.r.pc = "m_suggest" THEN Append(suggests, id) ELSE suggests
  /\ UNCHANGED <<calc, cfg, nsubs, accepted, evals, books>>

\* what follows the await of suggestSlotsCore, up to the await of chatAgentGenerate
suggestReturned(w, r, id, ok) ==
  IF ~ok THEN [w |-> w, r |-> Caught(r)]
  ELSE [w |-> storeDecision(emitAll(w, r.stream, suggestEvents(id)), r.decision),
        r |-> [r EXCEPT !.ask = Ask(r.decision), !.pc = "m_chat"]]

\* calendar.events.list of suggestSlotsCore settles
SuggestReturn(id) ==
  /\ reqs[id].pc = "m_suggest"
  /\ \E ok \in BOOLEAN :
       LET n == suggestReturned(World, reqs[id], id, ok) IN
       /\ SetWorld(n.w)
       /\ reqs' = [reqs EXCEPT ![id] = n.r]
  /\ UNCHANGED <<calc, cfg, nsubs, accepted, evals, suggests, books>>

\* what follows the await of chatAgentGenerate, to the end of the handler
chatReturned(w, r, id, ok) ==
  IF ~ok THEN [w |-> w, r |-> Caught(r)]
  ELSE \* text || fallback()
       [w |-> finish(w, id, r.next, r.stream, r.decision, r.ask, <<"reply">>),
        r |-> Done(r, 200)]

\* openai.chat.completions.create of chatAgentGenerate settles
ChatReturn(id) ==
  /\ reqs[id].pc = "m_chat"
  /\ \E ok \in BOOLEAN :
       LET n == chatReturned(World, reqs[id], id, ok) IN
       /\ SetWorld(n.w)
       /\ reqs' = [reqs EXCEPT ![id] = n.r]
  /\ UNCHANGED <<calc, cfg, nsubs, accepted, evals, suggests, books>>

\* ------------------------- POST /api/agent/complete, POST /api/agent/form/submit
\* buildBriefing(req.user, form), as the fields it is made of
buildBriefing(form) == <<"Requester", form.topic>> \o form.attendees

\* slot?.start ? new Date(slot.start) : new Date()
SlotStart(slot) == IF slot.has THEN slot.start ELSE "now"

\* slot?.end ? new Date(slot.end) : new Date(start.getTime() + 30 * 60 * 1000)
SlotEnd(slot) == IF slot.has THEN slot.end ELSE "start+30min"

\* !useUser && !ensureOwnerGoogle(res): no token file of the requester nor of the owner
NoCalendar(userGoogle, ownerGoogle) == ~userGoogle /\ ~ownerGoogle

\* POST /api/agent/complete up to the await of calendar.events.insert, run in
\* world w for the request taken as number id
completeTaken(w, id, form, slot, userGoogle, ownerGoogle) ==
  LET stream == w.streams
      r0 == [NoReq EXCEPT !.kind = "complete", !.stream = stream]
  IN
  IF ~w.rec.exists THEN [w |-> w, r |-> Done(r0, 404)]
  ELSE
    LET w1 == writeJSON(w, [w.rec EXCEPT !.form = form])
        w2 == updateState(w1, "ready_to_schedule", id)
        w3 == emit(w2, stream, Ev("log", <<"Compiling briefing...">>, id))
    IN
    IF ~form.has THEN
      \* buildBriefing reads form.topic of undefined: the handler throws, no response
      [w |-> w3, r |-> Done(r0, 0)]
    ELSE
      LET w4 == emit(w3, stream, Ev("briefing", buildBriefing(form), id))
          w5 == appendMessage(w4, Msg("assistant", "chat", <<"Scheduling now...">>))
          w6 == IF w5.streams # 0
                THEN sseSend(w5, w5.streams, Ev("chat", <<"assistant", "chat">>, id))
                ELSE w5
      IN
      IF NoCalendar(userGoogle, ownerGoogle) THEN
        [w |-> emit(w6, stream, Ev("error", <<"Owner Google not connected">>, id)),
         r |-> Done(r0, 400)]
      ELSE
        [w |-> emit(updateState(w6, "scheduling", id), stream,
                    Ev("tool", <<"calendar.schedule", "call">>, id)),
         r |-> [r0 EXCEPT !.pc = "s_insert"]]

CompleteAccept ==
  /\ CanAccept(MaxReqs)
  /\ \E form \in Forms \cup { NoForm }, slot \in Slots, userGoogle \in BOOLEAN, ownerGoogle \in BOOLEAN :
       LET id == Len(reqs) + 1
           n  == completeTaken(World, id, form, slot, userGoogle, ownerGoogle)
       IN
       /\ SetWorld(n.w)
       /\ reqs' = Append(reqs, [n.r EXCEPT !.during = InFlight])
       /\ books' = IF n.r.pc = "s_insert"
                   THEN Append(books, [by |-> id, st0 |-> rec.state, slot |-> slot,
                                       start |-> SlotStart(slot), end |-> SlotEnd(slot),
                                       attendees |-> form.attendees, result |-> ""])
                   ELSE books
  /\ UNCHANGED <<calc, cfg, nsubs, accepted, evals, suggests>>

\* POST /api/agent/form/submit up to the await of calendar.events.insert, run in
\* world w for the request taken as number id
formSubmitTaken(w, id, values, userGoogle, ownerGoogle) ==
  LET stream == w.streams
      form == values
      r0 == [NoReq EXCEPT !.kind = "formsubmit", !.stream = stream]
  IN
  IF ~values.has THEN [w |-> w, r |-> Done([r0 EXCEPT !.stream = 0], 400)]
  ELSE IF ~w.rec.exists THEN [w |-> w, r |-> Done(r0, 404)]
  ELSE
    LET w1 == writeJSON(w, [w.rec EXCEPT !.form = form])
        w2 == updateState(w1, "ready_to_schedule", id)
        w3 == emitAll(w2, stream,
                << Ev("log", <<"Compiling briefing...">>, id),
                   Ev("briefing", buildBriefing(form), id) >>)
        w4 == appendMessage(w3, Msg("assistant", "chat", <<"Thanks! Scheduling now...">>))
        w5 == emit(w4, stream, Ev("chat", <<"assistant", "chat">>, id))
    IN
    IF NoCalendar(userGoogle, ownerGoogle) THEN
      [w |-> updateState(emit(w5, stream, Ev("error", <<"Owner Google not connected">>, id)),
                         "error", id),
       r |-> Done(r0, 400)]
    ELSE
      [w |-> updateState(w5, "scheduling", id), r |-> [r0 EXCEPT !.pc = "s_insert"]]

FormSubmitAccept ==
  /\ CanAccept(MaxReqs)
  /\ \E values \in Forms \cup { NoForm }, slot \in Slots, userGoogle \in BOOLEAN, ownerGoogle \in BOOLEAN :
       LET id == Len(reqs) + 1
           n  == formSubmitTaken(World, id, values, userGoogle, ownerGoogle)
       IN
       /\ SetWorld(n.w)
       /\ reqs' = Append(reqs, [n.r EXCEPT !.during = InFlight])
       /\ books' = IF n.r.pc = "s_insert"
                   THEN Append(books, [by |-> id, st0 |-> rec.state, slot |-> slot,
                                       start |-> "now", end |-> "start+30min",
                                       attendees |-> values.attendees, result |-> ""])
                   ELSE books
  /\ UNCHANGED <<calc, cfg, nsubs, accepted, evals, suggests>>

\* a success path that left out the scheduled event
ScheduledEvents_NoScheduled(kind, eventId, id) ==
  IF kind = "complete"
  THEN << Ev("tool", <<"calendar.schedule", "result">>, id) >> ELSE << >>

\* the events of the success path, from the insert's result to done
ScheduledEvents(kind, eventId, id) ==
  ( IF kind = "complete"
    THEN << Ev("tool", <<"calendar.schedule", "result">>, id) >> ELSE << >> ) \o
  << Ev("scheduled", <<eventId, "link">>, id) >>

\* what follows the await of calendar.events.insert, to the end of the handler
insertReturned(w, r, id, ok, eventId) ==
  LET w1 == IF ok
            THEN emit(updateState(emitAll(w, r.stream,
                                          ScheduledEvents(r.kind, eventId, id)),
                                  "notified", id),
                      r.stream, Ev("done", <<"SCHEDULED">>, id))
            ELSE updateState(emit(w, r.stream, Ev("error", <<"Calendar error">>, id)),
                             "error", id)
  IN  [w |-> IF r.kind = "complete" THEN closeStream(w1) ELSE w1,
       r |-> Done(r, IF ok THEN 200 ELSE 500)]

\* calendar.events.insert settles, for either endpoint
InsertReturn(id) ==
  /\ reqs[id].pc = "s_insert"
  /\ \E ok \in BOOLEAN, eventId \in EventIds :
       LET n == insertReturned(World, reqs[id], id, ok, eventId) IN
       /\ ok \/ eventId = CHOOSE e \in EventIds : TRUE
       /\ SetWorld(n.w)
       /\ reqs' = [reqs EXCEPT ![id] = n.r]
       /\ books' = [k \in DOMAIN books |->
                      IF books[k].by = id
                      THEN [books[k] EXCEPT !.result = IF ok THEN eventId ELSE "rejected"]
                      ELSE books[k]]
  /\ UNCHANGED <<calc, cfg, nsubs, accepted, evals, suggests>>

Next ==
  \/ Start
  \/ Subscribe
  \/ MessageAccept
  \/ \E id \in ReqIds : OracleReturn(id)
  \/ \E id \in ReqIds : SuggestReturn(id)
  \/ \E id \in ReqIds : ChatReturn(id)
  \/ CompleteAccept
  \/ FormSubmitAccept
  \/ \E id \in ReqIds : InsertReturn(id)

Spec == Init /\ [][Next]_vars

\* message requests only, no subscriber and no submission
NextMsgs ==
  \/ Start
  \/ MessageAcceptN(MaxOnlyMsgs)
  \/ \E id \in ReqIds : OracleReturn(id)
  \/ \E id \in ReqIds : SuggestReturn(id)
  \/ \E id \in ReqIds : ChatReturn(id)

SpecMsgs == Init /\ [][NextMsgs]_vars

\* the calls run one at a time: a call is made only when no request is awaiting
NextSeq ==
  \/ InFlight = { } /\ Start
  \/ InFlight = { } /\ Subscribe
  \/ InFlight = { } /\ MessageAccept
  \/ InFlight = { } /\ CompleteAccept
  \/ InFlight = { } /\ FormSubmitAccept
  \/ \E id \in ReqIds : OracleReturn(id)
  \/ \E id \in ReqIds : SuggestReturn(id)
  \/ \E id \in ReqIds : ChatReturn(id)
  \/ \E id \in ReqIds : InsertReturn(id)

SpecSeq == Init /\ [][NextSeq]_vars

\* ------------------------------------- the form fields attendees and links
\* a JSON value of req.body: an array of strings or a string, a string being a
\* sequence of characters
Arr(l) == [t |-> "array", v |-> l]

Str(cs) == [t |-> "string", v |-> cs]

\* String.prototype.split(',')
RECURSIVE Split(_)
Split(cs) ==
  LET commas == { i \in 1..Len(cs) : cs[i] = "," }
  IN  IF commas = { } THEN << cs >>
      ELSE LET i == CHOOSE c \in commas : \A d \in commas : c <= d
           IN  << SubSeq(cs, 1, i - 1) >> \o Split(SubSeq(cs, i + 1, Len(cs)))

\* String.prototype.trim()
RECURSIVE Trim(_)
Trim(cs) ==
  IF Len(cs) = 0 THEN cs
  ELSE IF cs[1] = " " THEN Trim(Tail(cs))
  ELSE IF cs[Len(cs)] = " " THEN Trim(SubSeq(cs, 1, Len(cs) - 1))
  ELSE cs

\* .map(s => s.trim()).filter(Boolean)
RECURSIVE TrimAll(_)
TrimAll(l) ==
  IF Len(l) = 0 THEN << >>
  ELSE ( IF Trim(l[1]) = << >> THEN << >> ELSE << Trim(l[1]) >> ) \o TrimAll(Tail(l))

\* const toList = (v) => Array.isArray(v) ? v : (typeof v === 'string' ? ... : [])
toList(x) ==
  IF x.t = "array" THEN x
  ELSE IF x.t = "string" THEN Arr(TrimAll(Split(x.v)))
  ELSE Arr(<< >>)

\* Array.prototype.join(',') of the entries: the same entries given as one string
RECURSIVE JoinComma(_)
JoinComma(l) ==
  IF Len(l) = 0 THEN << >>
  ELSE IF Len(l) = 1 THEN l[1]
  ELSE l[1] \o <<",">> \o JoinComma(Tail(l))

\* the entries as the body gives them, in the shape asked for
Given(entries, shape) == IF shape = "array" THEN Arr(entries) ELSE Str(JoinComma(entries))

\* the characters of an entry, an entry of up to MaxEntryLen characters, and a
\* field of up to MaxEntries entries
EntryChars == { "a", " " }

Entries == UNION { [1..n -> EntryChars] : n \in 0..MaxEntryLen }

EntryLists == UNION { [1..n -> Entries] : n \in 1..MaxEntries }

Shapes == { "array", "string" }

InitForm ==
  /\ InitServer
  /\ calc \in [op : { "form" }, entries : EntryLists, endpoint : { "" },
               shape : { "" }, stored : { Arr(<< >>) }]

\* POST /api/agent/complete: writeJSON(recordPath, { ...rec, form }) with the form
\* of the body as it is
CompleteForm ==
  /\ calc.op = "form" /\ calc.endpoint = ""
  /\ \E shape \in Shapes :
       calc' = [calc EXCEPT !.endpoint = "complete", !.shape = shape,
                            !.stored = Given(calc.entries, shape)]
  /\ UNCHANGED <<cfg, rec, hist, streams, out, ended, nsubs, reqs, accepted, evals,
                 suggests, books>>

\* POST /api/agent/form/submit: the form is built from values with toList
FormSubmitForm ==
  /\ calc.op = "form" /\ calc.endpoint = ""
  /\ \E shape \in Shapes :
       calc' = [calc EXCEPT !.endpoint = "formsubmit", !.shape = shape,
                            !.stored = toList(Given(calc.entries, shape))]
  /\ UNCHANGED <<cfg, rec, hist, streams, out, ended, nsubs, reqs, accepted, evals,
                 suggests, books>>

NextForm == CompleteForm \/ FormSubmitForm

SpecForm == InitForm /\ [][NextForm]_vars


\* --------------------------------------------------------- buildFormSchema
\* The schema as a list of fields with their required flags, built for every
\* ask list the handler can pass: decision.missing is whatever list of names
\* the model's answer holds, REQUIRED_FIELDS_ON_APPROVE whatever the
\* deployment sets.

\* longest ask list followed
MaxAsk == 2

\* names an ask list can hold: the six keys of the schema and "agenda", the
\* name the handler's own default list uses
AskNames == { SchemaKeys[i] : i \in 1..Len(SchemaKeys) } \cup { "agenda" }

AskLists == UNION { [1..n -> AskNames] : n \in 0..MaxAsk }

\* field(key, label, input): required is requiredSet.has(key)
field(key, ask) == [key |-> key, required |-> InSeq(key, ask)]

\* the fields of the object buildFormSchema returns
formFields(ask) == [i \in 1..Len(SchemaKeys) |-> field(SchemaKeys[i], ask)]

InitSchema ==
  /\ InitServer
  /\ calc \in [op : { "schema" }, pc : { "start" }, ask : AskLists, fields : { << >> }]

\* const formSchema = buildFormSchema(ask)
buildSchema ==
  /\ calc.op = "schema" /\ calc.pc = "start"
  /\ calc' = [calc EXCEPT !.pc = "done", !.fields = formFields(calc.ask)]
  /\ UNCHANGED <<cfg, rec, hist, streams, out, ended, nsubs, reqs, accepted, evals,
                 suggests, books>>

NextSchema == buildSchema

SpecSchema == InitSchema /\ [][NextSchema]_vars


\* ------------------------------------------------------- suggestSlotsCore
\* Times are whole units counted from midnight of the day of the call; day d
\* runs from d * DayLen to (d + 1) * DayLen.

\* if (suggestions.length >= 10) break
MaxSuggestions == 10

\* calendar.events.list, mapped to { start, end }
NoEvents == << >>

OwnerEventLists == { NoEvents, << [start |-> 3, end |-> 5] >>,
                     << [start |-> 13, end |-> 16] >> }

UserEventLists == { NoEvents, << [start |-> 4, end |-> 7] >> }

\* days, durationMins, windowStart, windowEnd of the query (or the defaults)
DaysChoices == { 1, 2 }

DurationChoices == { 0 - 1, 0, 1, 2 }

WindowStarts == { 2, 11 }

WindowEnds == { 6, DayLen }

Nows == { 0, 5 }

\* dayStart and dayEnd of day d
dayStart(c, d) == d * DayLen + c.windowStart

dayEnd(c, d) == d * DayLen + c.windowEnd

\* a test that also counts an event which only touches the slot
busy_Touching(events, s, e) ==
  \E i \in 1..Len(events) : ~( e < events[i].start \/ s > events[i].end )

\* ownerEvents.some(ev => !(e <= ev.start || s >= ev.end))
busy(events, s, e) ==
  \E i \in 1..Len(events) : ~( e <= events[i].start \/ s >= events[i].end )

\* const useOwnerOnly = ownerOnly || !userHasTokens
useOwnerOnly(c) == c.ownerOnly \/ ~c.userHasTokens

InitSlots ==
  /\ InitServer
  /\ calc \in [op : { "suggest" }, pc : { "start" },
               days : DaysChoices, durationMins : DurationChoices,
               windowStart : WindowStarts, windowEnd : WindowEnds,
               ownerOnly : BOOLEAN, userHasTokens : BOOLEAN, ownerGoogle : BOOLEAN,
               now : Nows, ownerEvents : OwnerEventLists, userEvents : UserEventLists,
               d : { 0 }, t : { 0 }, suggestions : { << >> }]
  /\ calc.ownerOnly => calc.userEvents = NoEvents
  /\ ~calc.ownerGoogle => ( calc.ownerEvents = NoEvents /\ calc.userEvents = NoEvents )

\* the call up to the first test of the outer loop: without the owner's token the
\* result is { suggestions: [] }
suggestStart ==
  /\ calc.op = "suggest" /\ calc.pc = "start"
  /\ calc' = IF ~calc.ownerGoogle THEN [calc EXCEPT !.pc = "done"]
             ELSE [calc EXCEPT !.pc = "day", !.d = 0]
  /\ UNCHANGED <<cfg, rec, hist, streams, out, ended, nsubs, reqs, accepted, evals,
                 suggests, books>>

\* for (let d = 0; d < days; d++): the test, and the start of the inner loop
suggestDay ==
  /\ calc.op = "suggest" /\ calc.pc = "day"
  /\ calc' = IF calc.d < calc.days
             THEN [calc EXCEPT !.pc = "slot", !.t = dayStart(calc, calc.d)]
             ELSE [calc EXCEPT !.pc = "done"]
  /\ UNCHANGED <<cfg, rec, hist, streams, out, ended, nsubs, reqs, accepted, evals,
                 suggests, books>>

\* for (let t = dayStart; t + slotMs <= dayEnd; t += slotMs): the test and one
\* pass of the body, or the end of the day
suggestSlot ==
  /\ calc.op = "suggest" /\ calc.pc = "slot"
  /\ calc.t >= 0 - MaxBack
  /\ LET slotMs == calc.durationMins
         s == calc.t
         e == calc.t + slotMs
         busyOwner == busy(calc.ownerEvents, s, e)
         busyUser == IF useOwnerOnly(calc) THEN FALSE ELSE busy(calc.userEvents, s, e)
         pushed == IF ~busyOwner /\ ~busyUser /\ s > calc.now
                   THEN Append(calc.suggestions, [start |-> s, end |-> e])
                   ELSE calc.suggestions
     IN
     calc' = IF calc.t + slotMs <= dayEnd(calc, calc.d)
             THEN IF Len(pushed) >= MaxSuggestions
                  THEN [calc EXCEPT !.suggestions = pushed, !.pc = "done"]
                  ELSE [calc EXCEPT !.suggestions = pushed, !.t = calc.t + slotMs]
             ELSE [calc EXCEPT !.d = calc.d + 1, !.pc = "day"]
  /\ UNCHANGED <<cfg, rec, hist, streams, out, ended, nsubs, reqs, accepted, evals,
                 suggests, books>>

NextSlots == suggestStart \/ suggestDay \/ suggestSlot

SpecSlots == InitSlots /\ [][NextSlots]_vars

\* the loop is synchronous code of one call: while it has a next step it takes it
SpecSlotsFair == InitSlots /\ [][NextSlots]_vars /\ WF_vars(NextSlots)

\* =================================================================== claims
\* helpers of the statements below
SubmitKinds == { "complete", "formsubmit" }

\* the events request id caused on the response of subscriber s, in order
ByReq(s, id) == SelectSeq(out[s], LAMBDA e : e.by = id)

\* request id has written an event of the given type to some subscriber
Emitted(id, type) == \E s \in Subs : \E i \in 1..Len(out[s]) :
                        out[s][i].by = id /\ out[s][i].type = type

\* the step in which request id returns
Returns(id) == id \in ReqIds /\ reqs[id].pc # "done" /\ reqs'[id].pc = "done"

\* the step in which request id is taken and returns at once
TakenAndReturns(id) == id = Len(reqs) + 1 /\ Len(reqs') = id /\ reqs'[id].pc = "done"

\* request id returns in this step and leaves no request awaiting
CompletesAlone(id) == (Returns(id) \/ TakenAndReturns(id)) /\ InFlight' = { }

\* a message request that ran to its last statement
RanThrough(r) == r.kind = "message" /\ r.pc = "done" /\ r.res = 200 /\ ~r.caught

\* the edges of the state-machine diagram
DiagramEdges ==
  { <<"awaiting_input", "evaluating">>,
    <<"evaluating", "awaiting_input">>,
    <<"evaluating", "approved_needs_details">>,
    <<"evaluating", "ready_to_schedule">>,
    <<"approved_needs_details", "ready_to_schedule">>,
    <<"ready_to_schedule", "scheduling">>,
    <<"scheduling", "notified">>,
    <<"scheduling", "error">> }

\* C1: every change of the persisted state written by start, subscribe, message,
\* complete or form/submit is one of the eight edges of the diagram (the first
\* write of a new record aside).
C1_OnlyDiagramEdges ==
  \A e \in hist : e[1] # "" => e \in DiagramEdges

\* C2: once the persisted state is notified or error, no write changes it.
C2_TerminalStatesStay ==
  \A e \in hist : e[1] \notin { "notified", "error" }

\* C3: when a message request that ran through returns and no other request is
\* awaiting, the stored state is ready_to_schedule (APPROVE, empty ask list),
\* approved_needs_details (APPROVE, ask list not empty) or awaiting_input (DECLINE).
C3_FinalStateFollowsDecision ==
  [][ \A id \in DOMAIN reqs' :
        ( CompletesAlone(id) /\ RanThrough(reqs'[id]) )
        => rec'.state = ( IF reqs'[id].decision.decision = "APPROVE"
                          THEN IF Len(reqs'[id].ask) = 0
                               THEN "ready_to_schedule" ELSE "approved_needs_details"
                          ELSE "awaiting_input" ) ]_vars

\* C4: every message request taken evaluates the Decision Oracle exactly once, on
\* the contents of all user messages taken so far, oldest first, joined.
C4_OracleSeesAllUserMessages ==
  /\ \A i \in 1..Len(evals) : evals[i].input = Join(evals[i].sofar)
  /\ \A id \in ReqIds :
       ( reqs[id].kind = "message" /\ ~(reqs[id].pc = "done" /\ reqs[id].res \in { 400, 404 }) )
       => Cardinality({ i \in 1..Len(evals) : evals[i].by = id }) = 1

\* C5: a message request whose decision is DECLINE (the safe defaults included)
\* writes no form event to any subscriber: every form event comes from a request
\* whose decision is APPROVE.
C5_DeclineEmitsNoForm ==
  \A s \in Subs : \A i \in 1..Len(out[s]) :
    out[s][i].type = "form" => reqs[out[s][i].by].decision.decision = "APPROVE"

\* a DECLINE ran through with a subscriber attached, which got the chat reply
C5_Witness ==
  \E id \in ReqIds :
    /\ RanThrough(reqs[id])
    /\ reqs[id].decision.decision = "DECLINE"
    /\ reqs[id].stream # 0
    /\ \E i \in 1..Len(out[reqs[id].stream]) :
         LET e == out[reqs[id].stream][i]
         IN  e.by = id /\ e.type = "chat" /\ e.data = <<"assistant", "chat">>

\* C6: a message request whose decision is APPROVE with a non-empty ask list
\* writes to the attached subscriber a gather event with exactly that list and
\* then a form event, and leaves the Job in approved_needs_details.
C6_ApproveAsksGatherFormState ==
  [][ \A id \in DOMAIN reqs' :
        ( /\ CompletesAlone(id)
          /\ RanThrough(reqs'[id])
          /\ reqs'[id].decision.decision = "APPROVE"
          /\ Len(reqs'[id].ask) > 0
          /\ reqs'[id].stream # 0
          /\ streams' = reqs'[id].stream )
        => /\ \E i, j \in 1..Len(out'[streams']) :
                /\ i < j
                /\ out'[streams'][i].by = id /\ out'[streams'][i].type = "gather"
                /\ out'[streams'][i].data = reqs'[id].ask
                /\ out'[streams'][j].by = id /\ out'[streams'][j].type = "form"
           /\ rec'.state = "approved_needs_details" ]_vars

\* the kind, in the order of the ordering guarantee, of an event of a message
\* request: 1 tool call of decision.evaluate, 2 its tool result, 3 the decision,
\* 4 the slot-suggestion result, 5 gather and form, 6 the assistant chat reply,
\* 0 any other event
KindRank(e) ==
  IF e.type = "tool" /\ e.data = <<"decision.evaluate", "call">> THEN 1
  ELSE IF e.type = "tool" /\ e.data = <<"decision.evaluate", "result">> THEN 2
  ELSE IF e.type = "decision" \/ (e.type = "agent" /\ e.data[1] = "decision") THEN 3
  ELSE IF (e.type = "tool" /\ e.data = <<"calendar.suggest", "result">>)
          \/ (e.type = "agent" /\ e.data[1] = "calendar") THEN 4
  ELSE IF e.type \in { "gather", "form" } THEN 5
  ELSE IF e.type = "chat" /\ e.data = <<"assistant", "chat">> THEN 6
  ELSE 0

Key(type, data) == <<type, data>>

\* the events a message request writes, in the order the amended claim gives them,
\* as far as the request has come
ExpectedOrder(r) ==
  LET d == r.decision
      approve == d.decision = "APPROVE"
      early == IF d.hasMissing THEN d.missing ELSE cfg.requiredFieldsOnApprove
      ask == IF d.hasMissing /\ d.missing # << >> THEN d.missing
             ELSE IF approve THEN cfg.requiredFieldsOnApprove ELSE DeclineAsk
      final == IF approve /\ ask = << >> THEN "ready_to_schedule"
               ELSE IF approve THEN "approved_needs_details" ELSE "awaiting_input"
      taken == << Key("state", <<"evaluating">>),
                  Key("chat", <<"user", "user">>),
                  Key("tool", <<"decision.evaluate", "call">>),
                  Key("log", <<"Evaluating due diligence...">>) >>
      decided == IF r.oracle = "disabled" THEN << Key("log", <<"LLM disabled">>) >>
                 ELSE << Key("decision", <<d.decision>>) >> \o
                      ( IF approve /\ early # << >> THEN << Key("gather", early) >> ELSE << >> )
      result == << Key("tool", <<"decision.evaluate", "result">>),
                   Key("agent", <<"decision", d.decision>>) >>
      suggest == IF approve
                 THEN << Key("tool", <<"calendar.suggest", "call">>),
                         Key("tool", <<"calendar.suggest", "result">>),
                         Key("agent", <<"calendar">>) >>
                 ELSE << >>
      reply == << Key("gather", ask) >> \o
               ( IF approve /\ ask # << >>
                 THEN << Key("form", SelectSeq(SchemaKeys, LAMBDA k : InSeq(k, ask))) >>
                 ELSE << >> ) \o
               << Key("chat", <<"assistant", "chat">>), Key("state", <<final>>) >>
  IN  IF r.oracle \in { "", "failed" } THEN taken
      ELSE taken \o decided \o result \o suggest \o reply

RECURSIVE IsSubseq(_, _)
IsSubseq(a, b) ==
  IF Len(a) = 0 THEN TRUE
  ELSE IF Len(b) = 0 THEN FALSE
  ELSE IF a[1] = b[1] THEN IsSubseq(Tail(a), Tail(b))
  ELSE IsSubseq(a, Tail(b))

Keys(es) == [i \in 1..Len(es) |-> Key(es[i].type, es[i].data)]

C8_OracleFailureDeclines ==
  [][ \A id \in DOMAIN reqs' :
        ( /\ CompletesAlone(id)
          /\ reqs'[id].kind = "message"
          /\ reqs'[id].oracle \in { "disabled", "failed", "unparsed" } )
        => /\ reqs'[id].res = 200
           /\ reqs'[id].decision.decision = "DECLINE"
           /\ reqs'[id].decision.rationale # ""
           /\ \A k \in 1..Len(suggests') : suggests'[k] # id
           /\ \A s \in Subs : \A i \in 1..Len(out'[s]) :
                ~(out'[s][i].by = id /\ out'[s][i].type = "form")
           /\ rec'.state = "awaiting_input" ]_vars

\* C9: calendar.events.insert is called by complete or form/submit only when the
\* stored state at the time of the call is approved_needs_details or
\* ready_to_schedule.
C9_BookedOnlyWhenApproved ==
  \A k \in 1..Len(books) :
    books[k].st0 \in { "approved_needs_details", "ready_to_schedule" }

\* the entry of books for request id
BookOf(id) == CHOOSE b \in { books[k] : k \in 1..Len(books) } : b.by = id

\* C10: when the insert of a submission succeeds the request writes scheduled with
\* the event id and link, then done SCHEDULED, and returns with the stored state
\* notified; when it fails the request writes error, neither scheduled nor done,
\* and returns with the stored state error.
C10_SubmitOutcome ==
  [][ \A id \in DOMAIN reqs :
        ( Returns(id) /\ reqs[id].pc = "s_insert" )
        => LET s == reqs[id].stream
               es == IF s # 0 THEN SelectSeq(out'[s], LAMBDA e : e.by = id) ELSE << >>
               at(type) == { i \in 1..Len(es) : es[i].type = type }
           IN  IF reqs'[id].res = 200
               THEN /\ rec'.state = "notified"
                    /\ BookOf(id)'.result \in EventIds
                    /\ s # 0 =>
                         /\ \E i \in at("scheduled"), j \in at("done") :
                              /\ i < j
                              /\ es[i].data = << BookOf(id)'.result, "link" >>
                              /\ es[j].data = << "SCHEDULED" >>
                         /\ at("error") = { }
               ELSE /\ rec'.state = "error"
                    /\ s # 0 => at("error") # { }
                    /\ ~Emitted(id, "scheduled")'
                    /\ ~Emitted(id, "done")' ]_vars

\* a submission whose insert succeeded has returned, with a subscriber attached to it
C10_Witness ==
  \E id \in ReqIds :
    /\ reqs[id].kind \in SubmitKinds
    /\ reqs[id].pc = "done"
    /\ reqs[id].res = 200
    /\ reqs[id].stream # 0
    /\ Emitted(id, "scheduled")
    /\ rec.state = "notified"

\* C11: the stored state becomes notified only in the step in which the insert of
\* a submission returns with success - a request that, to reach the insert, has set
\* ready_to_schedule and then scheduling; no write of start, subscribe or a
\* message request makes the state notified.
C11_NotifiedOnlyBySuccessfulSubmit ==
  [][ ( \E e \in hist' \ hist : e[2] = "notified" )
      => \E id \in ReqIds :
           /\ reqs[id].kind \in SubmitKinds
           /\ reqs[id].pc = "s_insert"
           /\ Returns(id)
           /\ reqs'[id].res = 200
           /\ BookOf(id)'.result \in EventIds ]_vars

\* the entries of a field, each trimmed, the empty ones dropped
Normalized(entries) == Arr(TrimAll(entries))

\* C12: whichever endpoint stores a field (attendees, links) and whether the body
\* gives it as a list or as a comma-separated string, the stored value is the list
\* of its entries, each trimmed, the empty ones dropped.
C12_SameStoredList ==
  ( calc.op = "form" /\ calc.endpoint # "" ) => calc.stored = Normalized(calc.entries)

\* the state events written to subscriber s so far
StateEvents(o, s) == SelectSeq(o[s], LAMBDA e : e.type = "state")

\* C13: when a message request or a submission returns, no other request is
\* awaiting and a subscriber is attached, the stored state is the state of the
\* last state event written to that subscriber.
C13_StoreMatchesLastStateEvent ==
  [][ \A id \in DOMAIN reqs' :
        ( /\ CompletesAlone(id)
          /\ reqs'[id].kind \in { "message" } \cup SubmitKinds
          /\ streams' # 0
          /\ Len(StateEvents(out', streams')) > 0 )
        => LET es == StateEvents(out', streams')
           IN  es[Len(es)].data = << rec'.state >> ]_vars

\* C14: a subscribe on an existing Job writes to the new subscriber the readiness
\* log and then one state event with the stored state (awaiting_input when the
\* record has none), nothing else and nothing to another subscriber, and leaves
\* the record as it is - so a second subscribe right after it gets the same
\* snapshot.
C14_SubscribeSnapshot ==
  [][ ( nsubs' = nsubs + 1 /\ rec.exists )
      => /\ out'[nsubs'] =
              << Ev("log", <<"Agent ready.">>, 0),
                 Ev("state", << IF rec.state # "" THEN rec.state ELSE "awaiting_input" >>, 0) >>
         /\ \A t \in Subs \ { nsubs' } : out'[t] = out[t]
         /\ streams' = nsubs'
         /\ rec' = rec /\ hist' = hist ]_vars

\* two subscribers attached one right after the other to a Job that had left
\* awaiting_input, and both got the same snapshot
C14_Witness ==
  /\ nsubs = 2 /\ rec.exists /\ rec.state # "awaiting_input"
  /\ Len(out[1]) = 2 /\ Len(out[2]) = 2
  /\ out[1][2].type = "state" /\ out[1][2].data = << rec.state >>
  /\ out[2] = out[1]

\* a is a prefix of b
IsPrefix(a, b) == Len(a) <= Len(b) /\ SubSeq(b, 1, Len(a)) = a

\* C15: with the calls run one at a time, every step leaves a stored transcript of
\* which the transcript stored before is a prefix.
C15_MessagesOnlyGrow ==
  [][ IsPrefix(rec.messages, rec'.messages) ]_vars

\* nothing of the server changes in the step, the list of requests aside
NothingTouched ==
  /\ rec' = rec /\ hist' = hist
  /\ streams' = streams /\ out' = out /\ ended' = ended
  /\ evals' = evals /\ suggests' = suggests /\ books' = books

\* C16: a message request with no jobId or no content is answered 400, one with
\* both and a jobId no record exists for is answered 404; either leaves the
\* records, the subscribers' streams and the lists of oracle and provider calls
\* as they were.
C16_MessageRejected ==
  [][ \A id \in DOMAIN reqs' :
        ( id \notin DOMAIN reqs /\ reqs'[id].kind = "message" )
        => LET b == reqs'[id].body
               invalid == b.jobId = "" \/ b.content = << >>
               unknown == ~invalid /\ ( b.jobId # JobId \/ ~rec.exists )
           IN  /\ invalid => ( reqs'[id].pc = "done" /\ reqs'[id].res = 400 /\ NothingTouched )
               /\ unknown => ( reqs'[id].pc = "done" /\ reqs'[id].res = 404 /\ NothingTouched ) ]_vars

\* with the Job started and a subscriber attached, one message request named a
\* jobId without record and another gave no content
C16_Witness ==
  /\ rec.exists /\ streams # 0
  /\ \E i, j \in ReqIds :
       /\ reqs[i].kind = "message" /\ reqs[i].body.jobId = UnknownJobId /\ reqs[i].res = 404
       /\ reqs[j].kind = "message" /\ reqs[j].body.content = << >> /\ reqs[j].res = 400

\* C17: the step that creates the record leaves it with state awaiting_input,
\* evaluated false, no lastDecision and a transcript that is empty or the one
\* seeded user message; neither that step nor a subscribe calls the Decision
\* Oracle or changes the stored state, and every call of the oracle is made by a
\* message request.
C17_StartIsLazy ==
  [][ /\ ( ~rec.exists /\ rec'.exists )
           => /\ rec'.state = "awaiting_input"
              /\ rec'.evaluated = FALSE
              /\ rec'.lastDecision = NoDecision
              /\ rec'.messages \in { << >> } \cup { << Msg("user", "user", c) >> : c \in SeedContents }
              /\ evals' = evals /\ reqs' = reqs
      /\ ( nsubs' # nsubs ) => ( evals' = evals /\ rec' = rec /\ reqs' = reqs )
      /\ \A i \in 1..Len(evals') :
           evals'[i].by \in DOMAIN reqs' /\ reqs'[evals'[i].by].kind = "message" ]_vars

\* a Job started with a seeded message and subscribed to, not evaluated so far
C17_Witness ==
  /\ rec.exists /\ rec.state = "awaiting_input" /\ ~rec.evaluated
  /\ rec.messages = << Msg("user", "user", <<"s">>) >>
  /\ streams # 0 /\ evals = << >>

\* C18: an event is written only to the subscriber attached when it is written:
\* a step writes to no subscriber but the one attached before it or the one it
\* attaches, so a subscriber that was replaced gets nothing more.
C18_OnlyAttachedSubscriberWritten ==
  [][ \A s \in Subs :
        out'[s] # out[s] => ( s = streams \/ ( nsubs' # nsubs /\ s = nsubs' ) ) ]_vars

\* ---- C19
\* the same world with no subscriber attached, and the same request holding no stream
Blind(w) == [w EXCEPT !.streams = 0]

Unwatched(r) == [r EXCEPT !.stream = 0]

\* what a stretch of a handler leaves in the Record Store and with the caller
Core(n) == [rec |-> n.w.rec, hist |-> n.w.hist, r |-> Unwatched(n.r)]

\* stretch n of the running server and the same stretch b run with no subscriber:
\* same record and result, and b has put no event on any stream
SameUnwatched(n, b) == Core(n) = Core(b) /\ b.w.out = out

\* every stretch any handler can run from the present state, on every input
StretchesAgree ==
  /\ Len(reqs) < MaxReqs =>
       LET id == Len(reqs) + 1 IN
       /\ \A body \in MessageBodies(id) :
            SameUnwatched(messageTaken(World, id, body), messageTaken(Blind(World), id, body))
       /\ \A form \in Forms \cup { NoForm }, slot \in Slots, ug \in BOOLEAN, og \in BOOLEAN :
            /\ SameUnwatched(completeTaken(World, id, form, slot, ug, og),
                             completeTaken(Blind(World), id, form, slot, ug, og))
            /\ SameUnwatched(formSubmitTaken(World, id, form, ug, og),
                             formSubmitTaken(Blind(World), id, form, ug, og))
  /\ \A id \in DOMAIN reqs :
       LET r == reqs[id] IN
       /\ r.pc = "m_oracle" =>
            \A o \in OracleOutcomes, og \in BOOLEAN :
              SameUnwatched(oracleReturned(World, r, id, o, og),
                            oracleReturned(Blind(World), Unwatched(r), id, o, og))
       /\ r.pc = "m_suggest" =>
            \A ok \in BOOLEAN :
              SameUnwatched(suggestReturned(World, r, id, ok),
                            suggestReturned(Blind(World), Unwatched(r), id, ok))
       /\ r.pc = "m_chat" =>
            \A ok \in BOOLEAN :
              SameUnwatched(chatReturned(World, r, id, ok),
                            chatReturned(Blind(World), Unwatched(r), id, ok))
       /\ r.pc = "s_insert" =>
            \A ok \in BOOLEAN, eventId \in EventIds :
              SameUnwatched(insertReturned(World, r, id, ok, eventId),
                            insertReturned(Blind(World), Unwatched(r), id, ok, eventId))

\* C19: whatever a handler does next, with a subscriber attached or with none it
\* leaves the same record, the same state changes and the same result for its
\* caller, and with none attached it writes to no stream; a subscriber that
\* attaches is sent nothing that a request emitted before.
C19_SubscriberDoesNotMatter ==
  /\ [] StretchesAgree
  /\ [][ nsubs' # nsubs =>
           \A i \in 1..Len(out'[nsubs']) : out'[nsubs'][i].by = 0 ]_vars

\* one call ran to its answer with no subscriber and put no event anywhere, and
\* a later call ran to its answer with the subscriber that attached in between
C19_Witness ==
  \E a \in DOMAIN reqs, b \in DOMAIN reqs :
    /\ a < b
    /\ reqs[a].pc = "done" /\ reqs[a].res = 200 /\ reqs[a].stream = 0
    /\ reqs[b].pc = "done" /\ reqs[b].res = 200 /\ reqs[b].stream # 0
    /\ \A s \in Subs : \A i \in 1..Len(out[s]) : out[s][i].by # a
    /\ \E s \in Subs : \E i \in 1..Len(out[s]) : out[s][i].by = b

\* ---- C20
\* C20: no event is written to a stream after closeStream has ended it, whichever
\* call writes it.
C20_NoWriteAfterClose ==
  \A s \in Subs : \A i \in 1..Len(out[s]) : ~out[s][i].late

\* ---- C21
\* slot x and event ev share some time
Overlaps(x, ev) == x.start < ev.end /\ ev.start < x.end

InWindow(x) ==
  \E d \in 0..(calc.days - 1) : dayStart(calc, d) <= x.start /\ x.end <= dayEnd(calc, d)

Free(x, events) == \A i \in 1..Len(events) : ~Overlaps(x, events[i])

\* C21: every slot that suggest returns starts after now, ends durationMins after
\* its start, lies in the window of one of the next days, overlaps no event of the
\* owner (nor of the requester in mutual mode); at most 10 are returned, in
\* ascending order of start.
C21_SlotsWellFormed ==
  ( calc.op = "suggest" /\ calc.pc = "done" ) =>
    LET sl == calc.suggestions IN
    /\ Len(sl) <= MaxSuggestions
    /\ \A i \in 1..Len(sl) :
         /\ sl[i].start > calc.now
         /\ sl[i].end = sl[i].start + calc.durationMins
         /\ InWindow(sl[i])
         /\ Free(sl[i], calc.ownerEvents)
         /\ ~useOwnerOnly(calc) => Free(sl[i], calc.userEvents)
    /\ \A i \in 1..(Len(sl) - 1) : sl[i].start <= sl[i + 1].start

\* ---- C22
\* C22: the Scheduling Provider is invoked with the start and end of the slot the
\* call carried, through either endpoint, and with now and now + 30 minutes when
\* the call carried none.
C22_ProviderGetsChosenSlot ==
  \A k \in DOMAIN books :
    IF books[k].slot.has
    THEN books[k].start = books[k].slot.start /\ books[k].end = books[k].slot.end
    ELSE books[k].start = "now" /\ books[k].end = "start+30min"

\* ---- C23
\* C23: when a submission that reached the scheduling step returns, through either
\* endpoint, the stream of the subscriber that was attached is ended and none is
\* attached any more; when a message call whose decision is DECLINE returns, the
\* subscriber and its stream are as they were.
C23_SubmitEndsStream ==
  [][ \A id \in DOMAIN reqs :
        /\ ( reqs[id].pc = "s_insert" /\ reqs'[id].pc = "done" ) =>
             ( streams' = 0 /\ ( streams # 0 => ended'[streams] ) )
        /\ ( reqs[id].kind = "message" /\ reqs[id].pc # "done" /\ reqs'[id].pc = "done"
             /\ reqs'[id].decision.decision = "DECLINE" ) =>
             ( streams' = streams /\ ended' = ended ) ]_vars

\* ---- C24
\* C24: an assistant chat event is emitted by a message call only when its
\* decision is DECLINE or APPROVE with an empty ask list; on APPROVE with fields
\* to ask for, the form is the only follow-up.
C24_NoChatBesideForm ==
  \A s \in Subs : \A i \in 1..Len(out[s]) :
    LET e == out[s][i] IN
    ( e.type = "chat" /\ e.data = <<"assistant", "chat">> /\ e.by # 0
      /\ reqs[e.by].kind = "message" ) =>
        \/ reqs[e.by].decision.decision = "DECLINE"
        \/ ( reqs[e.by].decision.decision = "APPROVE" /\ reqs[e.by].ask = << >> )

\* ---- C25
\* the fields the last decision asks for: its missing list, or the configured
\* list when it has none
RequiredBy(decision) ==
  IF decision.hasMissing THEN decision.missing ELSE cfg.requiredFieldsOnApprove

\* the stored form has a non-empty value for the field (of the fields a form
\* carries here, topic and attendees)
Filled(form, name) ==
  /\ form.has
  /\ name = "topic" => form.topic # ""
  /\ name = "attendees" => Len(form.attendees) > 0

\* C25: the stored state changes from approved_needs_details to
\* ready_to_schedule only when the stored form has a value for every field the
\* last decision (or else the configuration) requires.
C25_ReadyOnlyWithRequiredFields ==
  [][ ( <<"approved_needs_details", "ready_to_schedule">> \in ( hist' \ hist ) ) =>
        \A k \in 1..Len(RequiredBy(rec'.lastDecision)) :
          Filled(rec'.form, RequiredBy(rec'.lastDecision)[k]) ]_vars

\* ---- C26
\* the stored state has been scheduling at some time
ReachedScheduling == \E e \in hist : e[2] = "scheduling"

\* C26: the stored form changes only when none was stored before and the Job has
\* not reached scheduling: it is written once and stays as it is afterwards.
C26_FormWrittenOnce ==
  [][ rec'.form # rec.form => ( rec.form = NoForm /\ ~ReachedScheduling ) ]_vars

\* ---- C27
\* the contents of the user messages of a stored transcript
StoredUserContents(r) == UserContents(r.messages)

\* one of the two calls was awaiting when the other was taken
Overlapped(i, j) == i \in reqs[j].during \/ j \in reqs[i].during

\* C27: a user message leaves the stored transcript only in the step in which a
\* message call returns that overlapped the message call which carried it; calls
\* that do not overlap lose no user message.
C27_LossOnlyWhenOverlapping ==
  [][ \A k \in 1..Len(StoredUserContents(rec)) :
        LET c == StoredUserContents(rec)[k] IN
        ~InSeq(c, StoredUserContents(rec')) =>
          \E i \in ReqIds, j \in ReqIds :
            /\ Overlapped(i, j)
            /\ reqs[i].kind = "message" /\ reqs[j].kind = "message"
            /\ Returns(i)
            /\ reqs[j].body.content = c ]_vars

\* two overlapping message calls have both been answered ok and the message of one
\* of them is not in the stored transcript
C27_Witness ==
  \E i \in ReqIds, j \in ReqIds :
    /\ i \in reqs[j].during
    /\ reqs[i].kind = "message" /\ reqs[i].pc = "done" /\ reqs[i].res = 200
    /\ reqs[j].kind = "message" /\ reqs[j].pc = "done" /\ reqs[j].res = 200
    /\ ~InSeq(reqs[j].body.content, StoredUserContents(rec))
    /\ InSeq(reqs[i].body.content, StoredUserContents(rec))

\* ---- C28
\* C28: a message call that ran through with the decision APPROVE asked for the
\* oracle's missing list whenever the oracle gave one, an empty one included, and
\* for the configured list only when the oracle gave none.
C28_AskIsOraclesList ==
  \A id \in ReqIds :
    ( RanThrough(reqs[id]) /\ reqs[id].decision.decision = "APPROVE" ) =>
      reqs[id].ask = RequiredBy(reqs[id].decision)

\* ---- C29
\* C29: when a message call returns after one of its oracles or the availability
\* provider failed, its subscriber has been sent an error event of that call and
\* the stored state is awaiting_input or error, not evaluating.
C29_FailureIsReported ==
  [][ \A id \in ReqIds :
        ( Returns(id) /\ reqs'[id].caught ) =>
          /\ rec'.state \in { "awaiting_input", "error" }
          /\ reqs[id].stream # 0 =>
               \E i \in 1..Len(out'[reqs[id].stream]) :
                 /\ out'[reqs[id].stream][i].by = id
                 /\ out'[reqs[id].stream][i].type = "error" ]_vars

\* ---- C30
\* transcript m is transcript b followed by the user message, the decision
\* agent's entry and the chat reply
GrownByOneCall(b, m, content) ==
  /\ IsPrefix(b, m)
  /\ Len(m) = Len(b) + 3
  /\ m[Len(b) + 1] = Msg("user", "user", content)
  /\ m[Len(b) + 2].role = "assistant" /\ m[Len(b) + 2].agent = "decision"
  /\ m[Len(b) + 3].role = "assistant" /\ m[Len(b) + 3].agent = "chat"

\* C30: with the calls run one at a time, a message call that ran through leaves
\* the transcript it found, followed by the user message, the decision entry and
\* the chat reply.
C30_TranscriptAfterCall ==
  [][ \A id \in DOMAIN reqs' :
        ( reqs'[id].kind = "message" /\ RanThrough(reqs'[id]) ) =>
          /\ TakenAndReturns(id) =>
               GrownByOneCall(rec.messages, rec'.messages, reqs'[id].body.content)
          /\ Returns(id) =>
               GrownByOneCall(SubSeq(reqs[id].next.messages, 1,
                                     Len(reqs[id].next.messages) - 1),
                              rec'.messages, reqs'[id].body.content) ]_vars

\* ---- C31
\* the message calls that were taken and not turned away
TakenMessages == { id \in ReqIds : reqs[id].kind = "message" /\ ~Rejected(reqs[id]) }

LatestTaken == CHOOSE id \in TakenMessages : \A other \in TakenMessages : other <= id

\* C31: once all message calls have run through, the stored lastDecision is the
\* decision of the call that was taken last, and evaluated is true.
C31_LastDecisionIsLatest ==
  ( InFlight = { } /\ TakenMessages # { }
    /\ \A id \in TakenMessages : RanThrough(reqs[id]) ) =>
      ( rec.evaluated /\ rec.lastDecision = reqs[LatestTaken].decision )

\* ---- C32
ToolNames == { "decision.evaluate", "calendar.suggest", "calendar.schedule" }

\* the tool events of request id on subscriber s with the given name and status
ToolEvents(s, id, name, status) ==
  SelectSeq(out[s], LAMBDA e : e.by = id /\ e.type = "tool" /\ e.data = <<name, status>>)

\* C32: when a request with a subscriber has returned, each tool has as many
\* result events as call events of that request, and every booking the request
\* made has its call event.
C32_ToolCallsBracketed ==
  \A id \in ReqIds :
    ( reqs[id].pc = "done" /\ reqs[id].stream # 0 ) =>
      LET s == reqs[id].stream IN
      /\ \A name \in ToolNames :
           Len(ToolEvents(s, id, name, "result")) = Len(ToolEvents(s, id, name, "call"))
      /\ ( \E k \in DOMAIN books : books[k].by = id ) =>
           Len(ToolEvents(s, id, "calendar.schedule", "call")) = 1

\* ---- C33
\* C33: no gather event and no form event is written by a message call whose
\* decision is DECLINE.
C33_DeclineGathersNothing ==
  \A s \in Subs : \A i \in 1..Len(out[s]) :
    LET e == out[s][i] IN
    ( e.type \in { "gather", "form" } /\ e.by # 0 /\ reqs[e.by].kind = "message" ) =>
      reqs[e.by].decision.decision # "DECLINE"

\* ---- C34
\* the k-th grid slot of day d
GridSlot(d, k) ==
  [start |-> dayStart(calc, d) + k * calc.durationMins,
   end   |-> dayStart(calc, d) + ( k + 1 ) * calc.durationMins]

\* the slot is free, starts after now and lies in the window of day d
Qualifies(x, d) ==
  /\ dayStart(calc, d) <= x.start /\ x.end <= dayEnd(calc, d)
  /\ x.start > calc.now
  /\ Free(x, calc.ownerEvents)
  /\ ~useOwnerOnly(calc) => Free(x, calc.userEvents)

\* how many of the returned slots start before time t
ReturnedBefore(t) ==
  Cardinality({ i \in 1..Len(calc.suggestions) : calc.suggestions[i].start < t })

\* C34: with the owner's calendar connected, a qualifying grid slot is missing from
\* the slots suggest returns only if 10 slots with an earlier start were returned;
\* so the first slot returned is the earliest qualifying one, and it ends
\* durationMins after its start.
C34_EarliestSlotsReturned ==
  ( calc.op = "suggest" /\ calc.pc = "done" /\ calc.ownerGoogle ) =>
    /\ \A d \in 0..(calc.days - 1), k \in 0..DayLen :
         ( Qualifies(GridSlot(d, k), d) /\ ~InSeq(GridSlot(d, k), calc.suggestions) ) =>
           ReturnedBefore(GridSlot(d, k).start) >= MaxSuggestions
    /\ Len(calc.suggestions) > 0 =>
         calc.suggestions[1].end = calc.suggestions[1].start + calc.durationMins

\* a call with a positive duration skipped a busy grid slot, returned 10 slots and
\* left a later qualifying slot out
C34_Witness ==
  /\ calc.op = "suggest" /\ calc.pc = "done" /\ calc.durationMins > 0
  /\ Len(calc.suggestions) = MaxSuggestions
  /\ calc.ownerEvents # NoEvents
  /\ calc.suggestions[1].start > dayStart(calc, 0)
  /\ \E d \in 0..(calc.days - 1), k \in 0..DayLen :
       Qualifies(GridSlot(d, k), d) /\ ~InSeq(GridSlot(d, k), calc.suggestions)

\* C35: the schema built for an ask list marks a field required exactly when
\* its key is in the ask list, and every name of the ask list is a required
\* field of the schema.
C35_EveryAskedNameIsAField ==
  ( calc.op = "schema" /\ calc.pc = "done" ) =>
    /\ \A i \in 1..Len(calc.fields) :
         calc.fields[i].required <=> InSeq(calc.fields[i].key, calc.ask)
    /\ \A j \in 1..Len(calc.ask) :
         \E i \in 1..Len(calc.fields) :
           calc.fields[i].key = calc.ask[j] /\ calc.fields[i].required

\* the stretch answered with one of the given statuses and left the records,
\* the subscribers' streams and the provider alone
RefusedWith(n, w, statuses) == n.r.pc = "done" /\ n.r.res \in statuses /\ n.w = w

\* C36: in every state the server reaches, a complete or form/submit call for a
\* jobId without record would be answered 404 and one without form or values
\* 400 (either of the two when both are the case), and it would leave the record
\* and the subscribers' streams as they are and not reach the calendar insert.
C36_SubmitRejected ==
  \A slot \in Slots, userGoogle \in BOOLEAN, ownerGoogle \in BOOLEAN :
    LET id == Len(reqs) + 1
        complete(form) == completeTaken(World, id, form, slot, userGoogle, ownerGoogle)
        submit(values) == formSubmitTaken(World, id, values, userGoogle, ownerGoogle)
    IN
    /\ ~rec.exists =>
         /\ \A form \in Forms : /\ RefusedWith(complete(form), World, { 404 })
                                /\ RefusedWith(submit(form), World, { 404 })
         /\ RefusedWith(complete(NoForm), World, { 400, 404 })
         /\ RefusedWith(submit(NoForm), World, { 400, 404 })
    /\ rec.exists =>
         /\ RefusedWith(complete(NoForm), World, { 400 })
         /\ RefusedWith(submit(NoForm), World, { 400 })

\* C37: the step in which a complete or form/submit request returns having
\* written an error event leaves the stored state error.
C37_ErrorEventMeansErrorState ==
  [][ \A id \in DOMAIN reqs' :
        ( /\ reqs'[id].kind \in SubmitKinds
          /\ Returns(id) \/ TakenAndReturns(id)
          /\ Emitted(id, "error")' )
        => rec'.state = "error" ]_vars

\* the calls of calendar.events.insert that returned an event
Booked == { i \in 1..Len(books) : books[i].result \in EventIds }

\* C38: at most one call of calendar.events.insert for the Job returns an
\* event, and once one has, no step calls calendar.events.insert again.
C38_BooksAtMostOnce ==
  [][ /\ Cardinality(Booked') <= 1
      /\ Booked # { } => Len(books') = Len(books) ]_vars

\* C39: when a message request returns that was awaiting while a complete or
\* form/submit request was taken, and that request has returned leaving the
\* state notified or error, the record keeps the form and the state that
\* request wrote.
C39_SubmitSurvivesMessage ==
  [][ \A m \in DOMAIN reqs, sub \in DOMAIN reqs :
        ( /\ reqs[m].kind = "message" /\ Returns(m)
          /\ reqs[sub].kind \in SubmitKinds /\ reqs[sub].pc = "done"
          /\ m \in reqs[sub].during
          /\ rec.state \in { "notified", "error" } )
        => ( rec'.form = rec.form /\ rec'.state = rec.state ) ]_vars

\* C40: every call of the slot generation returns, whatever days, durationMins,
\* windowStart and windowEnd it was given.
C40_SlotGenerationTerminates == <>( calc.pc = "done" )


====
